---- MODULE Spec2Model ----
(***************************************************************************)
(* HR leave assistant (abdulmuhaymen/NewIR): the command-line session of   *)
(* main.py, the query router of query_handler.py, the row store operations *)
(* of auth.py, the answer generator of rag_system.py, the document loader   *)
(* and reranker of data_loader.py and the login page and leave form of      *)
(* streamlit_app.py.                                                        *)
(*                                                                          *)
(* Text is a sequence of one-character strings, so that lower(), strip(),   *)
(* split(), startswith(), `in` and count() are computed on characters.      *)
(* Day counts and balances are Python floats; a finite float is kept in     *)
(* hundredths of a day (2.5 days is Fin(250)), next to nan, inf and -inf.   *)
(* The glyphs that open the replies of the source are written [x], [ok]     *)
(* and [!] here.                                                            *)
(***************************************************************************)
EXTENDS Integers, Sequences, FiniteSets, TLC

VARIABLES
    pc,                 \* position of LeavePolicyAssistant.run: "login", "query", "exited"
    attempts,           \* authenticate_user's local counter
    sheet,              \* the rows of worksheet Sheet1 (the external row store)
    history_exists,     \* whether the spreadsheet has a LeaveHistory worksheet
    leave_history,      \* the rows appended to LeaveHistory
    user_data,          \* Authenticator.user_data
    authenticated_user, \* Authenticator.authenticated_user
    user,               \* QueryHandler.user
    queries,            \* number of queries read by the loop of run
    last,               \* what the last handled query did (observation only)
    login,              \* what the last call of authenticate did (observation only)
    entry,              \* the entry point that was started: "cli" (main.py) or "gui"
    loader,             \* PolicyDataLoader: all_chunks, chunk_embeddings, vectorstore, retriever
    rag,                \* PolicyRAGSystem: data_loader, llm_ready, chain
    session_state,      \* st.session_state of the GUI session
    retrieved,          \* what the last retrieval did (observation only)
    sessions            \* the apply_for_leave calls of concurrent sessions, step by step

cliVars == <<pc, attempts, sheet, history_exists, leave_history, user_data,
             authenticated_user, user, queries, last>>
ragVars == <<entry, loader, rag, retrieved>>

vars == <<pc, attempts, sheet, history_exists, leave_history, user_data,
          authenticated_user, user, queries, last, login, entry, loader, rag,
          session_state, retrieved, sessions>>

----------------------------------------------------------------------------
(* Bounds of the model. *)

MaxQueries == 2

----------------------------------------------------------------------------
(* Program constants (config.py, rag_system.py), days in hundredths. *)

MAX_LOGIN_ATTEMPTS == 3
MIN_LEAVE_DAYS == 50
MAX_LEAVE_DAYS == 3000
MaxResponseLen == 600
MaxSentenceBreaks == 4

----------------------------------------------------------------------------
(* Python str operations on sequences of characters. *)

Whitespace == {" ", "\t", "\n"}

UpperLetters == <<"A", "B", "C", "D", "E", "F", "G", "H", "I", "J", "K", "L", "M",
                  "N", "O", "P", "Q", "R", "S", "T", "U", "V", "W", "X", "Y", "Z">>
LowerLetters == <<"a", "b", "c", "d", "e", "f", "g", "h", "i", "j", "k", "l", "m",
                  "n", "o", "p", "q", "r", "s", "t", "u", "v", "w", "x", "y", "z">>

LowerOf == [i \in 1..26 |-> LowerLetters[i]]
UpperIndex == [c \in {UpperLetters[i] : i \in 1..26} |->
                  CHOOSE i \in 1..26 : UpperLetters[i] = c]

lowerChar(c) == IF c \in DOMAIN UpperIndex THEN LowerOf[UpperIndex[c]] ELSE c

lower(s) == IF s = <<>> THEN <<>> ELSE [i \in 1..Len(s) |-> lowerChar(s[i])]

SetMin(S) == CHOOSE x \in S : \A y \in S : x <= y
SetMax(S) == CHOOSE x \in S : \A y \in S : x >= y

\* s.strip(): s without its leading and trailing whitespace
strip(s) ==
    IF \A i \in 1..Len(s) : s[i] \in Whitespace THEN <<>>
    ELSE LET n == Len(s)
             lead == CHOOSE k \in 0..(n - 1) :
                        s[k + 1] \notin Whitespace /\ \A j \in 1..k : s[j] \in Whitespace
             trail == CHOOSE k \in 0..(n - 1) :
                        s[n - k] \notin Whitespace /\ \A j \in 0..(k - 1) : s[n - j] \in Whitespace
         IN  SubSeq(s, lead + 1, n - trail)

startswith(s, prefix) ==
    Len(s) >= Len(prefix) /\ SubSeq(s, 1, Len(prefix)) = prefix

\* `term in s` for strings
contains(s, term) ==
    \E i \in 1..(Len(s) - Len(term) + 1) : SubSeq(s, i, i + Len(term) - 1) = term

RECURSIVE countFrom(_, _, _)
countFrom(s, sub, i) ==
    LET hits == {j \in i..(Len(s) - Len(sub) + 1) : SubSeq(s, j, j + Len(sub) - 1) = sub}
    IN  IF hits = {} THEN 0 ELSE 1 + countFrom(s, sub, SetMin(hits) + Len(sub))

\* s.count(sub): the non-overlapping occurrences, left to right
count(s, sub) == countFrom(s, sub, 1)

\* s.split(): the maximal runs of non-whitespace characters, left to right
split(s) ==
    LET n == Len(s)
        starts == {i \in 1..n : s[i] \notin Whitespace /\ (i = 1 \/ s[i - 1] \in Whitespace)}
        ends == {i \in 1..n : s[i] \notin Whitespace /\ (i = n \/ s[i + 1] \in Whitespace)}
        nth(S, k) == CHOOSE i \in S : Cardinality({j \in S : j < i}) = k - 1
    IN  IF starts = {} THEN <<>>
        ELSE [k \in 1..Cardinality(starts) |-> SubSeq(s, nth(starts, k), nth(ends, k))]

----------------------------------------------------------------------------
(* Python floats. *)

Fin(n) == [cls |-> "fin", v |-> n]
NaN == [cls |-> "nan", v |-> 0]
PosInf == [cls |-> "inf", v |-> 1]
NegInf == [cls |-> "inf", v |-> -1]
NoFloat == [cls |-> "none", v |-> 0]      \* Python None where a float is expected

fLt(a, b) ==
    /\ a.cls # "nan"
    /\ b.cls # "nan"
    /\ CASE a.cls = "fin" /\ b.cls = "fin" -> a.v < b.v
         [] a.cls = "inf" /\ b.cls = "fin" -> a.v < 0
         [] a.cls = "fin" /\ b.cls = "inf" -> b.v > 0
         [] OTHER -> a.v < b.v

fGt(a, b) == fLt(b, a)
fLe(a, b) == fLt(a, b) \/ (a.cls # "nan" /\ a = b)

\* the balance written back without the days taken off
fSub_unchanged(a, b) == a

fSub(a, b) ==
    CASE a.cls = "nan" \/ b.cls = "nan" -> NaN
      [] a.cls = "fin" /\ b.cls = "fin" -> Fin(a.v - b.v)
      [] a.cls = "fin" /\ b.cls = "inf" -> [cls |-> "inf", v |-> 0 - b.v]
      [] a.cls = "inf" /\ b.cls = "fin" -> a
      [] OTHER -> IF a.v = b.v THEN NaN ELSE a

\* truth value of `days` in `if not days`
truthy(d) == ~(d.cls = "none" \/ (d.cls = "fin" /\ d.v = 0))

Digits == <<"0", "1", "2", "3", "4", "5", "6", "7", "8", "9">>
IsDigit(c) == \E i \in 1..10 : Digits[i] = c
digitVal(c) == (CHOOSE i \in 1..10 : Digits[i] = c) - 1

RECURSIVE intVal(_)
intVal(ds) == IF ds = <<>> THEN 0 ELSE 10 * intVal(SubSeq(ds, 1, Len(ds) - 1)) + digitVal(ds[Len(ds)])

TxtNan == <<"n", "a", "n">>
TxtInf == <<"i", "n", "f">>
TxtInfinity == <<"i", "n", "f", "i", "n", "i", "t", "y">>

\* float(tok) for tokens written as [sign] digits [. digits], nan, inf, infinity
\* (the forms the queries use); ok is FALSE where float() raises ValueError.
\* A fraction is kept to hundredths.
float(tok) ==
    LET signed == tok # <<>> /\ tok[1] \in {"-", "+"}
        neg  == tok # <<>> /\ tok[1] = "-"
        body == IF signed THEN Tail(tok) ELSE tok
        dots == {i \in 1..Len(body) : body[i] = "."}
        ip   == IF dots = {} THEN body ELSE SubSeq(body, 1, SetMin(dots) - 1)
        fp   == IF dots = {} THEN <<>> ELSE SubSeq(body, SetMin(dots) + 1, Len(body))
        f2   == SubSeq(fp \o <<"0", "0">>, 1, 2)
        mag  == 100 * intVal(ip) + intVal(f2)
        dec  == /\ Cardinality(dots) <= 1
                /\ \A i \in 1..Len(body) : IsDigit(body[i]) \/ body[i] = "."
                /\ Len(ip) + Len(fp) >= 1
    IN  IF body = TxtNan THEN [ok |-> TRUE, val |-> NaN]
        ELSE IF body \in {TxtInf, TxtInfinity}
             THEN [ok |-> TRUE, val |-> IF neg THEN NegInf ELSE PosInf]
        ELSE IF dec THEN [ok |-> TRUE, val |-> Fin(IF neg THEN 0 - mag ELSE mag)]
        ELSE [ok |-> FALSE, val |-> NoFloat]

----------------------------------------------------------------------------
(* The row store (Google Sheets through gspread) and Authenticator.         *)
(* A handler runs with `f`, the store or service call that fails during it  *)
(* ("none": every call answers). Exception messages are sequences of the    *)
(* pieces their f-strings join.                                             *)

None == [none |-> TRUE]
NoData == <<>>                      \* user_data before the first load

NameAlice == <<"a", "l", "i", "c", "e">>
NameAliceUpper == <<"A", "L", "I", "C", "E">>
NameBob == <<"B", "o", "b">>
NameBobLower == <<"b", "o", "b">>
NameCarol == <<"c", "a", "r", "o", "l">>

Row(name, pw, rem) == [username |-> name, password |-> pw, remaining_leaves |-> rem]

StoreError == "<store call failed>"
NoneRow == "'NoneType' object has no attribute 'row'"
NoneSubscript == "'NoneType' object is not subscriptable"
NoneIterable == "argument of type 'NoneType' is not iterable"

\* worksheet.get_all_records() behind _connect_to_google_sheets()
load_user_data(fails, sh) ==
    IF fails
    THEN [raised |-> TRUE, msg |-> <<"Failed to load user data: ", StoreError>>, data |-> NoData]
    ELSE IF sh = <<>>
    THEN [raised |-> TRUE, msg |-> <<"Failed to load user data: ", "No data found in Google Sheet">>,
          data |-> NoData]
    ELSE [raised |-> FALSE, msg |-> <<>>, data |-> sh]

\* worksheet.find(value, in_column=1): the first row whose first cell is
\* exactly `value`, 0 for None
find(sh, value) ==
    LET hits == {i \in 1..Len(sh) : sh[i].username = value}
    IN  IF hits = {} THEN 0 ELSE SetMin(hits)

\* int(password) for [sign] digits between optional whitespace; ok is FALSE
\* where int() raises ValueError
int(txt) ==
    LET t == strip(txt)
        signed == t # <<>> /\ t[1] \in {"-", "+"}
        body == IF signed THEN Tail(t) ELSE t
    IN  IF body # <<>> /\ \A i \in 1..Len(body) : IsDigit(body[i])
        THEN [ok |-> TRUE, val |-> IF t[1] = "-" THEN 0 - intVal(body) ELSE intVal(body)]
        ELSE [ok |-> FALSE, val |-> 0]

\* the usernames compared as they are written
authenticate_exact_case(username, password, f, sh, ud, au) ==
    LET loaded == load_user_data(f = "auth.load", sh)
        pw == int(password)
        hits == {i \in 1..Len(sh) :
                    /\ sh[i].username = username
                    /\ sh[i].password = pw.val}
    IN  IF loaded.raised
        THEN [ret |-> "raise", msg |-> <<"Authentication error: ">> \o loaded.msg,
              user_data |-> ud, authenticated_user |-> au]
        ELSE IF ~pw.ok
        THEN [ret |-> "False", msg |-> <<>>, user_data |-> loaded.data, authenticated_user |-> au]
        ELSE IF hits = {}
        THEN [ret |-> "False", msg |-> <<>>, user_data |-> loaded.data, authenticated_user |-> au]
        ELSE [ret |-> "True", msg |-> <<>>, user_data |-> loaded.data,
              authenticated_user |-> sh[SetMin(hits)]]

\* Authenticator.authenticate: ret is "True", "False" or "raise"
authenticate(username, password, f, sh, ud, au) ==
    LET loaded == load_user_data(f = "auth.load", sh)
        pw == int(password)
        hits == {i \in 1..Len(sh) :
                    /\ lower(sh[i].username) = lower(username)
                    /\ sh[i].password = pw.val}
    IN  IF loaded.raised
        THEN [ret |-> "raise", msg |-> <<"Authentication error: ">> \o loaded.msg,
              user_data |-> ud, authenticated_user |-> au]
        ELSE IF ~pw.ok
        THEN [ret |-> "False", msg |-> <<>>, user_data |-> loaded.data, authenticated_user |-> au]
        ELSE IF hits = {}
        THEN [ret |-> "False", msg |-> <<>>, user_data |-> loaded.data, authenticated_user |-> au]
        ELSE [ret |-> "True", msg |-> <<>>, user_data |-> loaded.data,
              authenticated_user |-> sh[SetMin(hits)]]

\* Authenticator.get_authenticated_user: the fresh record, or None
get_authenticated_user(fails, sh, ud, au) ==
    LET loaded == load_user_data(fails, sh)
        hits == {i \in 1..Len(sh) : lower(sh[i].username) = lower(au.username)}
    IN  IF au = None
        THEN [ret |-> None, user_data |-> ud, authenticated_user |-> au, loaded |-> FALSE]
        ELSE IF loaded.raised
        THEN [ret |-> None, user_data |-> ud, authenticated_user |-> au, loaded |-> FALSE]
        ELSE IF hits = {}
        THEN [ret |-> None, user_data |-> loaded.data, authenticated_user |-> au, loaded |-> TRUE]
        ELSE [ret |-> sh[SetMin(hits)], user_data |-> loaded.data,
              authenticated_user |-> sh[SetMin(hits)], loaded |-> TRUE]

MustBePositive == "Leave days must be positive"
MinimumLeave == "Minimum leave is {MIN_LEAVE_DAYS} day"
MaximumLeave == "Maximum leave is {MAX_LEAVE_DAYS} days"
NotEnough == "Not enough remaining leaves"

\* the balance check placed before the maximum check
validate_balance_first(days, remaining_leaves) ==
    IF fLe(days, Fin(0)) THEN MustBePositive
    ELSE IF fLt(days, Fin(MIN_LEAVE_DAYS)) THEN MinimumLeave
    ELSE IF fGt(days, remaining_leaves) THEN NotEnough
    ELSE IF fGt(days, Fin(MAX_LEAVE_DAYS)) THEN MaximumLeave
    ELSE "ok"

\* the balance check written days >= remaining_leaves
validate_strict_balance(days, remaining_leaves) ==
    IF fLe(days, Fin(0)) THEN MustBePositive
    ELSE IF fLt(days, Fin(MIN_LEAVE_DAYS)) THEN MinimumLeave
    ELSE IF fGt(days, Fin(MAX_LEAVE_DAYS)) THEN MaximumLeave
    ELSE IF fLe(remaining_leaves, days) THEN NotEnough
    ELSE "ok"

\* the balance check left out
validate_no_balance_check(days, remaining_leaves) ==
    IF fLe(days, Fin(0)) THEN MustBePositive
    ELSE IF fLt(days, Fin(MIN_LEAVE_DAYS)) THEN MinimumLeave
    ELSE IF fGt(days, Fin(MAX_LEAVE_DAYS)) THEN MaximumLeave
    ELSE "ok"

\* the four checks of apply_for_leave: the ValueError raised, or "ok"
validate(days, remaining_leaves) ==
    IF fLe(days, Fin(0)) THEN MustBePositive
    ELSE IF fLt(days, Fin(MIN_LEAVE_DAYS)) THEN MinimumLeave
    ELSE IF fGt(days, Fin(MAX_LEAVE_DAYS)) THEN MaximumLeave
    ELSE IF fGt(days, remaining_leaves) THEN NotEnough
    ELSE "ok"

ApplyResult(ok, msg, sh, hex, hist, ud, reached, rem) ==
    [ok |-> ok, msg |-> msg, sheet |-> sh, history_exists |-> hex, leave_history |-> hist,
     user_data |-> ud, reached |-> reached, remaining |-> rem]

ApplyRaise(cause, sh, hex, hist, ud, reached, rem) ==
    ApplyResult(FALSE, <<"Failed to apply for leave: ">> \o cause, sh, hex, hist, ud, reached, rem)

\* Authenticator.apply_for_leave: ok is TRUE where it returns True and FALSE
\* where it raises; reached is TRUE once the balance was read and the checks ran
apply_for_leave(username, days, f, sh, hex, hist, ud) ==
    LET loaded == load_user_data(f = "apply.load", sh)
        row == find(sh, lower(username))
        remaining_leaves == sh[row].remaining_leaves
        refusal == validate(days, remaining_leaves)
        new_remaining == fSub(remaining_leaves, days)
        updated == [sh EXCEPT ![row].remaining_leaves = new_remaining]
        appended == Append(hist, [username |-> username, days |-> days,
                                  status |-> "Pending Approval"])
    IN  IF loaded.raised THEN ApplyRaise(loaded.msg, sh, hex, hist, ud, FALSE, NoFloat)
        ELSE IF f = "apply.find"
        THEN ApplyRaise(<<StoreError>>, sh, hex, hist, loaded.data, FALSE, NoFloat)
        ELSE IF row = 0
        THEN ApplyRaise(<<NoneRow>>, sh, hex, hist, loaded.data, FALSE, NoFloat)
        ELSE IF f = "apply.cell"
        THEN ApplyRaise(<<StoreError>>, sh, hex, hist, loaded.data, FALSE, NoFloat)
        ELSE IF refusal # "ok"
        THEN ApplyRaise(<<refusal>>, sh, hex, hist, loaded.data, TRUE, remaining_leaves)
        ELSE IF f = "apply.update_cell"
        THEN ApplyRaise(<<StoreError>>, sh, hex, hist, loaded.data, TRUE, remaining_leaves)
        ELSE IF f = "apply.worksheets"
        THEN ApplyRaise(<<StoreError>>, updated, hex, hist, loaded.data, TRUE, remaining_leaves)
        ELSE IF f = "apply.append_row"
        THEN ApplyRaise(<<StoreError>>, updated, TRUE, hist, loaded.data, TRUE, remaining_leaves)
        ELSE ApplyResult(TRUE, <<>>, updated, TRUE, appended, loaded.data, TRUE, remaining_leaves)

----------------------------------------------------------------------------
(* The document loader and the reranker (PolicyDataLoader). A chunk is      *)
(* named by its page_content. The embedder and the index are libraries, so  *)
(* the cosine similarity of a chunk to the query is an input: `scores`      *)
(* gives it for every chunk, in hundredths.                                 *)

Min(a, b) == IF a < b THEN a ELSE b

\* the place a (score, chunk) pair takes among pairs already ranked: ahead
\* of the pairs, all of them, that score as much as it does
insert_before_ties(ranked, i, sc) ==
    LET ahead == {j \in 1..Len(ranked) : sc[ranked[j]] > sc[i]}
        n == Cardinality(ahead)
    IN  SubSeq(ranked, 1, n) \o <<i>> \o SubSeq(ranked, n + 1, Len(ranked))

\* the place a (score, chunk) pair takes among pairs already ranked: behind
\* every pair that scores at least as much, as a stable sort places it
insert(ranked, i, sc) ==
    LET ahead == {j \in 1..Len(ranked) : sc[ranked[j]] >= sc[i]}
        n == Cardinality(ahead)
    IN  SubSeq(ranked, 1, n) \o <<i>> \o SubSeq(ranked, n + 1, Len(ranked))

\* sorted(zip(scores, retrieved_chunks), key=lambda x: x[0], reverse=True) on
\* the first n pairs, as the positions the pairs had in retrieved_chunks
RECURSIVE sorted(_, _)
sorted(sc, n) == IF n = 0 THEN <<>> ELSE insert(sorted(sc, n - 1), n, sc)

\* PolicyDataLoader.rerank_chunks; order gives, for every chunk returned, its
\* position in retrieved_chunks
rerank_chunks(scores, retrieved_chunks, top_k) ==
    IF retrieved_chunks = <<>>
    THEN [order |-> <<>>, chunks |-> <<>>]
    ELSE LET sc == [i \in 1..Len(retrieved_chunks) |-> scores[retrieved_chunks[i]]]
             ranked == sorted(sc, Len(retrieved_chunks))
             top == SubSeq(ranked, 1, Min(top_k, Len(ranked)))
         IN  [order |-> top, chunks |-> [i \in 1..Len(top) |-> retrieved_chunks[top[i]]]]

\* PolicyDataLoader.get_reranked_chunks: initial_chunks is what
\* self.retriever.invoke(query) answers
get_reranked_chunks(scores, initial_chunks, top_k) ==
    rerank_chunks(scores, initial_chunks, top_k)

\* a PolicyDataLoader as __init__ leaves it; raised and step tell how the
\* last call of load_all_documents ended (observation only)
FreshLoader ==
    [all_chunks |-> <<>>, chunk_embeddings |-> None, vectorstore |-> None,
     retriever |-> None, raised |-> FALSE, step |-> "none"]

\* PolicyDataLoader.load_all_documents on loader ld; f is the step that fails
\* ("pdf", "excel", "encode", "index", or "none"), the documents are what the
\* PDF and the spreadsheet hold
load_all_documents(f, ld, pdf_docs, excel_docs) ==
    LET all_docs == pdf_docs \o excel_docs
        Raise(l, step) == [l EXCEPT !.raised = TRUE, !.step = step]
        l1 == [ld EXCEPT !.all_chunks = all_docs]
        l2 == [l1 EXCEPT !.chunk_embeddings = [of |-> all_docs]]
        l3 == [l2 EXCEPT !.vectorstore = [of |-> all_docs],
                         !.retriever = [of |-> all_docs]]
    IN  IF f \in {"pdf", "excel"} THEN Raise(ld, f)
        ELSE IF f = "encode" THEN Raise(l1, f)
        ELSE IF f = "index" \/ all_docs = <<>> THEN Raise(l2, "index")
        ELSE [l3 EXCEPT !.raised = FALSE, !.step = "none"]

----------------------------------------------------------------------------
(* The answer generator (PolicyRAGSystem). *)

DotSpace == <<".", " ">>
ErrorProcessing == <<"E", "r", "r", "o", "r", " ", "p", "r", "o", "c", "e", "s", "s", "i", "n", "g",
                     " ", "y", "o", "u", "r", " ", "q", "u", "e", "r", "y", ":", " ">>

\* both conditions asked for instead of either
too_long_both(result) ==
    count(result, DotSpace) > MaxSentenceBreaks /\ Len(result) > MaxResponseLen

\* the test that sends the first answer back for summarization
too_long(result) ==
    count(result, DotSpace) > MaxSentenceBreaks \/ Len(result) > MaxResponseLen

\* the try block closed before the summarization call: its failure is not
\* turned into the error string and the first answer stands
invoke_gemini_unguarded(f, r1, r2, cause) ==
    LET result == strip(r1)
        summarized == strip(r2)
    IN  IF f = "generate1"
        THEN [text |-> ErrorProcessing \o cause, calls |-> 1]
        ELSE IF count(result, DotSpace) > MaxSentenceBreaks \/ Len(result) > MaxResponseLen
        THEN IF f = "generate2"
             THEN [text |-> result, calls |-> 2]
             ELSE [text |-> summarized, calls |-> 2]
        ELSE [text |-> result, calls |-> 1]

\* PolicyRAGSystem._invoke_gemini: r1 and r2 are the texts the backend answers
\* the first and the second call with, cause the message of the call that fails
invoke_gemini(f, r1, r2, cause) ==
    LET result == strip(r1)
        summarized == strip(r2)
    IN  IF f = "generate1"
        THEN [text |-> ErrorProcessing \o cause, calls |-> 1]
        ELSE IF too_long(result)
        THEN IF f = "generate2"
             THEN [text |-> ErrorProcessing \o cause, calls |-> 2]
             ELSE [text |-> summarized, calls |-> 2]
        ELSE [text |-> result, calls |-> 1]

\* top_k of the call in custom_retriever
RerankTopK == 5

ContextSeparator == "\n\n"

\* "\n\n".join(page_content of the chunks), as the pieces joined
RECURSIVE join(_)
join(chunks) ==
    IF chunks = <<>> THEN <<>>
    ELSE IF Len(chunks) = 1 THEN chunks
    ELSE <<Head(chunks), ContextSeparator>> \o join(Tail(chunks))

\* PolicyRAGSystem as __init__ builds it
PolicyRAGSystem(retriever, data_loader) ==
    [retriever |-> retriever, data_loader |-> data_loader, llm_ready |-> FALSE,
     chain |-> FALSE]

\* PolicyRAGSystem.custom_retriever: docs is what self.retriever.invoke(query)
\* answers; reranked tells whether the reranker ran
custom_retriever(rg, scores, docs) ==
    IF rg.data_loader # None
    THEN LET reranked_chunks == get_reranked_chunks(scores, docs, RerankTopK)
         IN  [context |-> join(reranked_chunks.chunks), order |-> reranked_chunks.order,
              chunks |-> reranked_chunks.chunks, reranked |-> TRUE]
    ELSE [context |-> join(docs), order |-> [i \in 1..Len(docs) |-> i],
          chunks |-> docs, reranked |-> FALSE]

\* PolicyRAGSystem.query_policy with the chain set up: custom_retriever, the
\* prompt, then _invoke_gemini
query_policy(f, r1, r2, cause) ==
    IF f = "retriever"
    THEN [text |-> ErrorProcessing \o cause, calls |-> 0]
    ELSE invoke_gemini(f, r1, r2, cause)

----------------------------------------------------------------------------
(* The query router (QueryHandler). *)

ApplyPrefix == <<"a", "p", "p", "l", "y", " ", "f", "o", "r", " ", "l", "e", "a", "v", "e">>
TermLeaveBalance == <<"l", "e", "a", "v", "e", " ", "b", "a", "l", "a", "n", "c", "e">>
TermRemainingLeaves == <<"r", "e", "m", "a", "i", "n", "i", "n", "g", " ", "l", "e", "a", "v", "e", "s">>
TermHowManyLeaves == <<"h", "o", "w", " ", "m", "a", "n", "y", " ", "l", "e", "a", "v", "e", "s">>
TermLeave == <<"l", "e", "a", "v", "e">>
BalanceTerms == {TermLeaveBalance, TermRemainingLeaves, TermHowManyLeaves}

\* the replies, named by their f-string
PleaseSpecify == "Please specify leave days like: 'apply for leave 2.5'"
BalanceReply == "Your current leave balance: {remaining_leaves} days"
Submitted == "[ok] Leave application for {days} days submitted successfully!\nRemaining leaves: {remaining_leaves}\nStatus: Pending approval"
ValueErrorReply == "[x] {e}"
ApplyFailed == "[x] Failed to apply for leave: {e}"
PolicyFailed == "[!] Sorry, there was an error handling your question: {e}"
PolicyReply == "{response}"
PolicyWithBalance == "{response}\n\nYour current leave balance: {remaining_leaves} days"
CouldNotConvert == "could not convert string to float: {token}"

Reply(kind, days, rem, cause, text) ==
    [kind |-> kind, days |-> days, remaining_leaves |-> rem, cause |-> cause, text |-> text]
NoReply == Reply("", NoFloat, NoFloat, <<>>, <<>>)

NoApply == ApplyResult(FALSE, <<>>, <<>>, FALSE, <<>>, NoData, FALSE, NoFloat)

NoResponse == [text |-> <<>>, calls |-> 0]

\* what handle_query did: its reply (or raised), the values it went through
\* and the state it leaves
Outcome(branch, raised, reply, tok, days, called, app, resp, sh, hex, hist, ud, au, u) ==
    [branch |-> branch, raised |-> raised, reply |-> reply, token |-> tok, days |-> days,
     apply_called |-> called, apply_ok |-> app.ok, reached |-> app.reached,
     remaining |-> app.remaining, calls |-> resp.calls, response |-> resp.text,
     sheet |-> sh, history_exists |-> hex, leave_history |-> hist, user_data |-> ud,
     authenticated_user |-> au, user |-> u]

\* QueryHandler._handle_leave_application
handle_leave_application(query, f, sh, hex, hist, ud, au, u) ==
    LET parts == split(query)
        present == Len(parts) > 3
        tok == IF present THEN parts[4] ELSE <<>>
        parsed == float(tok)
        days == IF present THEN parsed.val ELSE NoFloat
        app == apply_for_leave(u.username, days, f, sh, hex, hist, ud)
        ref == get_authenticated_user(f = "refresh.load", app.sheet, app.user_data, au)
        Stay(reply) == Outcome("apply", FALSE, reply, tok, days, FALSE, NoApply, NoResponse,
                               sh, hex, hist, ud, au, u)
    IN  IF present /\ ~parsed.ok
        THEN Stay(Reply(ValueErrorReply, NoFloat, NoFloat, <<CouldNotConvert>>, tok))
        ELSE IF ~truthy(days)
        THEN Stay(Reply(PleaseSpecify, NoFloat, NoFloat, <<>>, <<>>))
        ELSE IF u = None
        THEN Stay(Reply(ApplyFailed, NoFloat, NoFloat, <<NoneSubscript>>, <<>>))
        ELSE IF ~app.ok
        THEN Outcome("apply", FALSE, Reply(ApplyFailed, NoFloat, NoFloat, app.msg, <<>>),
                     tok, days, TRUE, app, NoResponse,
                     app.sheet, app.history_exists, app.leave_history, app.user_data, au, u)
        ELSE IF ref.ret = None
        THEN Outcome("apply", FALSE, Reply(ApplyFailed, NoFloat, NoFloat, <<NoneSubscript>>, <<>>),
                     tok, days, TRUE, app, NoResponse,
                     app.sheet, app.history_exists, app.leave_history, ref.user_data,
                     ref.authenticated_user, ref.ret)
        ELSE Outcome("apply", FALSE,
                     Reply(Submitted, days, ref.ret.remaining_leaves, <<>>, <<>>),
                     tok, days, TRUE, app, NoResponse,
                     app.sheet, app.history_exists, app.leave_history, ref.user_data,
                     ref.authenticated_user, ref.ret)

\* the balance read from the cached record, without the refresh
handle_balance_cached(f, sh, hex, hist, ud, au, u) ==
    IF u = None
    THEN Outcome("balance", TRUE, NoReply, <<>>, NoFloat, FALSE, NoApply, NoResponse,
                 sh, hex, hist, ud, au, u)
    ELSE Outcome("balance", FALSE,
                 Reply(BalanceReply, NoFloat, u.remaining_leaves, <<>>, <<>>),
                 <<>>, NoFloat, FALSE, NoApply, NoResponse,
                 sh, hex, hist, ud, au, u)

\* the balance branch of handle_query: _refresh_user_data, then the f-string
handle_balance(f, sh, hex, hist, ud, au, u) ==
    LET ref == get_authenticated_user(f = "refresh.load", sh, ud, au)
    IN  IF ref.ret = None
        THEN Outcome("balance", TRUE, NoReply, <<>>, NoFloat, FALSE, NoApply, NoResponse,
                     sh, hex, hist, ref.user_data, ref.authenticated_user, ref.ret)
        ELSE Outcome("balance", FALSE,
                     Reply(BalanceReply, NoFloat, ref.ret.remaining_leaves, <<>>, <<>>),
                     <<>>, NoFloat, FALSE, NoApply, NoResponse,
                     sh, hex, hist, ref.user_data, ref.authenticated_user, ref.ret)

\* the policy branch of handle_query: query_policy, _refine_policy_response
handle_policy(f, r1, r2, cause, sh, hex, hist, ud, au, u) ==
    LET response == query_policy(f, r1, r2, cause)
        reply == IF contains(lower(response.text), TermLeave)
                 THEN IF u = None
                      THEN Reply(PolicyFailed, NoFloat, NoFloat, <<NoneIterable>>, <<>>)
                      ELSE Reply(PolicyWithBalance, NoFloat, u.remaining_leaves, <<>>, response.text)
                 ELSE Reply(PolicyReply, NoFloat, NoFloat, <<>>, response.text)
    IN  Outcome("policy", FALSE, reply, <<>>, NoFloat, FALSE, NoApply, response,
                sh, hex, hist, ud, au, u)

\* the balance phrases tested before the prefix
route_balance_first(query) ==
    LET q == strip(lower(query))
    IN  IF \E term \in BalanceTerms : contains(q, term) THEN "balance"
        ELSE IF startswith(q, ApplyPrefix) THEN "apply"
        ELSE "policy"

\* the branch QueryHandler.handle_query takes for the text of a query
route(query) ==
    LET q == strip(lower(query))
    IN  IF startswith(q, ApplyPrefix) THEN "apply"
        ELSE IF \E term \in BalanceTerms : contains(q, term) THEN "balance"
        ELSE "policy"

\* QueryHandler.handle_query
handle_query(query, f, r1, r2, cause, sh, hex, hist, ud, au, u) ==
    LET q == strip(lower(query))
        branch == route(query)
    IN  IF branch = "apply" THEN handle_leave_application(q, f, sh, hex, hist, ud, au, u)
        ELSE IF branch = "balance" THEN handle_balance(f, sh, hex, hist, ud, au, u)
        ELSE handle_policy(f, r1, r2, cause, sh, hex, hist, ud, au, u)

----------------------------------------------------------------------------
(* The inputs the session is run on. *)

DayTails ==
    {<<>>,
     <<" ", "2">>,
     <<" ", "0">>,
     <<" ", "-", "1">>,
     <<" ", "0", ".", "1">>,
     <<" ", "4", "0">>,
     <<" ", "1", "0">>,
     <<" ", "5">>,
     <<" ", "5", ".", "0", "1">>,
     <<" ", "d", "a", "y", "s">>,
     <<" ", "n", "a", "n">>}
QApplyMixed ==
    <<" ", " ", "A", "p", "p", "l", "y", " ", "F", "o", "r", " ", "L", "E", "A", "V",
      "E", " ", "2", " ">>
QApplyRemaining ==
    <<"a", "p", "p", "l", "y", " ", "f", "o", "r", " ", "l", "e", "a", "v", "e", " ",
      "3", " ", "o", "f", " ", "m", "y", " ", "r", "e", "m", "a", "i", "n", "i", "n",
      "g", " ", "l", "e", "a", "v", "e", "s">>
QApplyBalance ==
    <<"a", "p", "p", "l", "y", " ", "f", "o", "r", " ", "l", "e", "a", "v", "e", " ",
      "b", "a", "l", "a", "n", "c", "e">>
QApplyTab ==
    <<"a", "p", "p", "l", "y", " ", "f", "o", "r", "\t", "l", "e", "a", "v", "e", " ",
      " ", "1", "0", ".", "0", "1", "\n">>
QPleaseApply ==
    <<"p", "l", "e", "a", "s", "e", " ", "a", "p", "p", "l", "y", " ", "f", "o", "r",
      " ", "l", "e", "a", "v", "e", " ", "2">>
QBalance == <<"L", "e", "a", "v", "e", " ", "B", "a", "l", "a", "n", "c", "e">>
QHowMany ==
    <<" ", "h", "o", "w", " ", "m", "a", "n", "y", " ", "l", "e", "a", "v", "e", "s",
      " ", "d", "o", " ", "i", " ", "h", "a", "v", "e", " ">>
QRemaining ==
    <<"s", "h", "o", "w", " ", "m", "y", " ", "R", "e", "m", "a", "i", "n", "i", "n",
      "g", " ", "L", "e", "a", "v", "e", "s">>
QPolicy ==
    <<"w", "h", "a", "t", " ", "i", "s", " ", "t", "h", "e", " ", "s", "i", "c", "k",
      " ", "l", "e", "a", "v", "e", " ", "p", "o", "l", "i", "c", "y">>
QFuel == <<"F", "u", "e", "l", " ", "a", "l", "l", "o", "w", "a", "n", "c", "e", "?">>
QExit == <<"e", "x", "i", "t">>
QQuit == <<"Q", "U", "I", "T">>
TxtExit == <<"e", "x", "i", "t">>
TxtQuit == <<"q", "u", "i", "t">>
Pw1234 == <<"1", "2", "3", "4">>
Pw42 == <<"4", "2">>
PwText == <<"s", "e", "c", "r", "e", "t">>
CauseQuota == <<"q", "u", "o", "t", "a", " ", "e", "x", "c", "e", "e", "d", "e", "d">>
CauseLeave == <<"m", "o", "d", "e", "l", " ", "o", "n", " ", "l", "e", "a", "v", "e">>
RespShort == <<"N", "o", "t", " ", "a", "v", "a", "i", "l", "a", "b", "l", "e", ".">>
RespLeave ==
    <<" ", "A", "n", "n", "u", "a", "l", " ", "L", "e", "a", "v", "e", " ", "i", "s",
      " ", "2", "0", " ", "d", "a", "y", "s", ".", "\n">>
RespFive == <<"a", ".", " ", "b", ".", " ", "c", ".", " ", "d", ".", " ", "e", ".", " ", "f">>
RespFour == <<"a", ".", " ", "b", ".", " ", "c", ".", " ", "d", ".", " ", "e">>
RespFourPadded == <<"a", ".", " ", "b", ".", " ", "c", ".", " ", "d", ".", " ", "e", ".", " ">>

Long(n) == [i \in 1..n |-> "x"]
RespAtLimit == Long(MaxResponseLen)
RespOverLimit == Long(MaxResponseLen + 1)
RespPaddedToOver == Long(MaxResponseLen) \o <<"\n">>

Queries ==
    {ApplyPrefix \o tail : tail \in DayTails}
    \cup {QApplyMixed, QApplyRemaining, QApplyBalance, QApplyTab, QPleaseApply}
    \cup {QBalance, QHowMany, QRemaining, QPolicy}

Responses == {RespShort, RespLeave, RespFive, RespFour, RespFourPadded,
              RespAtLimit, RespOverLimit, RespPaddedToOver}
Summaries == {RespShort, RespLeave, RespFive, RespOverLimit}
Causes == {CauseQuota, CauseLeave}

ApplyFails == {"none", "apply.load", "apply.find", "apply.cell", "apply.update_cell",
               "apply.worksheets", "apply.append_row", "refresh.load"}
BalanceFails == {"none", "refresh.load"}
LoginFails == {"none", "auth.load", "refresh.load"}

\* what the backends do during one policy question: every pair of answers
GenInputs ==
    {[f |-> "none", r1 |-> a, r2 |-> b, cause |-> CauseQuota] :
        a \in Responses, b \in Summaries}
    \cup {[f |-> g, r1 |-> RespShort, r2 |-> RespShort, cause |-> c] :
            g \in {"retriever", "generate1"}, c \in Causes}
    \cup {[f |-> "generate2", r1 |-> a, r2 |-> RespShort, cause |-> c] :
            a \in Responses, c \in Causes}

\* a few of them, for the runs that are about the router and the store
GenInputsShort ==
    {[f |-> "none", r1 |-> RespShort, r2 |-> RespShort, cause |-> CauseQuota],
     [f |-> "none", r1 |-> RespLeave, r2 |-> RespShort, cause |-> CauseQuota],
     [f |-> "retriever", r1 |-> RespShort, r2 |-> RespShort, cause |-> CauseQuota],
     [f |-> "generate1", r1 |-> RespShort, r2 |-> RespShort, cause |-> CauseLeave],
     [f |-> "generate2", r1 |-> RespFive, r2 |-> RespShort, cause |-> CauseQuota]}

\* what the services do during one query, by the branch the query takes
Services(branch, gen) ==
    IF branch = "apply"
    THEN {[f |-> g, r1 |-> <<>>, r2 |-> <<>>, cause |-> <<>>] : g \in ApplyFails}
    ELSE IF branch = "balance"
    THEN {[f |-> g, r1 |-> <<>>, r2 |-> <<>>, cause |-> <<>>] : g \in BalanceFails}
    ELSE gen

Usernames == {NameAlice, NameAliceUpper, NameBob, NameCarol}
Passwords == {Pw1234, Pw42, PwText}
InitBalances == {Fin(500), Fin(1000)}

\* the corpus, and what the loader, the retriever and the embedder are fed
Chunks == {"c1", "c2", "c3", "c4", "c5", "c6"}
PdfDocs == <<"c1", "c2", "c3", "c4">>
ExcelDocs == <<"c5", "c6">>
DefaultTopK == 3
MaxCandidates == 3
RerankChunks == {"c1", "c2", "c3"}
Scorings ==
    {[c \in Chunks |-> IF c \in RerankChunks THEN sc[c] ELSE 0] :
        sc \in [RerankChunks -> {10, 50, 90}]}
CandidateLists ==
    UNION {[1..n -> RerankChunks] : n \in 0..MaxCandidates}

\* answers of the index retriever with the scores of the chunks: the second
\* best first, six candidates in the order of their scores, a tie, nothing
RetrievalSwapped ==
    [docs |-> <<"c1", "c2">>,
     scores |-> [c \in Chunks |-> IF c = "c2" THEN 80 ELSE 10]]
RetrievalSix ==
    [docs |-> <<"c1", "c2", "c3", "c4", "c5", "c6">>,
     scores |-> [c \in Chunks |-> CASE c = "c1" -> 90 [] c = "c2" -> 80 [] c = "c3" -> 70
                                    [] c = "c4" -> 60 [] c = "c5" -> 50 [] OTHER -> 40]]
RetrievalTie ==
    [docs |-> <<"c2", "c1">>, scores |-> [c \in Chunks |-> 50]]
RetrievalNothing ==
    [docs |-> <<>>, scores |-> [c \in Chunks |-> 0]]
Retrievals == {RetrievalSwapped, RetrievalSix, RetrievalTie, RetrievalNothing}


----------------------------------------------------------------------------
(* The session. *)

NoLast ==
    [query |-> <<>>, branch |-> "none", raised |-> FALSE, reply |-> NoReply, token |-> <<>>,
     days |-> NoFloat, apply_called |-> FALSE, apply_ok |-> FALSE, reached |-> FALSE,
     remaining |-> NoFloat, calls |-> 0, response |-> <<>>, r1 |-> <<>>, r2 |-> <<>>,
     fail |-> "none", cause |-> <<>>, sheet_changed |-> FALSE, history_changed |-> FALSE,
     before |-> [submitted |-> FALSE, remaining |-> NoFloat, days |-> NoFloat]]

\* ret is "none" before the first login, "skipped" for a submit that did not
\* call authenticate, else what authenticate did; before and after are
\* Authenticator.authenticated_user around the call
NoLogin ==
    [username |-> <<>>, password |-> <<>>, fail |-> "none", ret |-> "none",
     before |-> None, after |-> None]

NoSession ==
    [system_initialized |-> FALSE, authenticated |-> FALSE, login_attempts |-> 0,
     user |-> None]

NoRetrieved ==
    [candidates |-> <<>>, scores |-> [c \in Chunks |-> 0], top_k |-> 0, order |-> <<>>,
     chunks |-> <<>>, context |-> <<>>, reranked |-> FALSE, done |-> FALSE]

\* the loader and the generator of a command-line run whose initialization
\* went through
LoadedLoader == load_all_documents("none", FreshLoader, PdfDocs, ExcelDocs)
CliRag ==
    [PolicyRAGSystem(LoadedLoader.retriever, None) EXCEPT !.llm_ready = TRUE, !.chain = TRUE]

Init ==
    /\ pc = "login"
    /\ attempts = 0
    /\ \E b \in InitBalances : sheet = <<Row(NameAlice, 1234, b), Row(NameBob, 42, Fin(3500))>>
    /\ history_exists = FALSE
    /\ leave_history = <<>>
    /\ user_data = NoData
    /\ authenticated_user = None
    /\ user = None
    /\ queries = 0
    /\ last = NoLast
    /\ login = NoLogin
    /\ entry = "cli"
    /\ loader = LoadedLoader
    /\ rag = CliRag
    /\ session_state = NoSession
    /\ retrieved = NoRetrieved
    /\ sessions = <<>>

\* the loop with the attempts that raise left uncounted
Login_raise_uncounted ==
    /\ entry = "cli"
    /\ pc = "login"
    /\ attempts < MAX_LOGIN_ATTEMPTS
    /\ \E username \in Usernames, password \in Passwords, f \in LoginFails :
         LET a == authenticate(strip(username), strip(password), f,
                               sheet, user_data, authenticated_user)
             g == get_authenticated_user(f = "refresh.load", sheet,
                                         a.user_data, a.authenticated_user)
         IN  /\ login' = [username |-> strip(username), password |-> strip(password),
                          fail |-> IF f = "auth.load" \/ a.ret = "True" THEN f ELSE "none",
                          ret |-> a.ret, before |-> authenticated_user,
                          after |-> a.authenticated_user]
             /\ IF a.ret = "True"
                THEN /\ user' = g.ret
                     /\ user_data' = g.user_data
                     /\ authenticated_user' = g.authenticated_user
                     /\ pc' = "query"
                     /\ attempts' = 0       \* the local counter ends with the call
                ELSE /\ user' = user
                     /\ user_data' = a.user_data
                     /\ authenticated_user' = a.authenticated_user
                     /\ attempts' = IF a.ret = "raise" THEN attempts ELSE attempts + 1
                     /\ pc' = IF attempts + 1 < MAX_LOGIN_ATTEMPTS THEN "login" ELSE "exited"
    /\ UNCHANGED <<sheet, history_exists, leave_history, queries, last>>
    /\ UNCHANGED <<ragVars, session_state, sessions>>

\* one turn of the while loop of LeavePolicyAssistant.authenticate_user
Login ==
    /\ entry = "cli"
    /\ pc = "login"
    /\ attempts < MAX_LOGIN_ATTEMPTS
    /\ \E username \in Usernames, password \in Passwords, f \in LoginFails :
         LET a == authenticate(strip(username), strip(password), f,
                               sheet, user_data, authenticated_user)
             g == get_authenticated_user(f = "refresh.load", sheet,
                                         a.user_data, a.authenticated_user)
         IN  /\ login' = [username |-> strip(username), password |-> strip(password),
                          fail |-> IF f = "auth.load" \/ a.ret = "True" THEN f ELSE "none",
                          ret |-> a.ret, before |-> authenticated_user,
                          after |-> a.authenticated_user]
             /\ IF a.ret = "True"
                THEN /\ user' = g.ret
                     /\ user_data' = g.user_data
                     /\ authenticated_user' = g.authenticated_user
                     /\ pc' = "query"
                     /\ attempts' = 0       \* the local counter ends with the call
                ELSE /\ user' = user
                     /\ user_data' = a.user_data
                     /\ authenticated_user' = a.authenticated_user
                     /\ attempts' = attempts + 1
                     /\ pc' = IF attempts + 1 < MAX_LOGIN_ATTEMPTS THEN "login" ELSE "exited"
    /\ UNCHANGED <<sheet, history_exists, leave_history, queries, last>>
    /\ UNCHANGED <<ragVars, session_state, sessions>>

\* a turn of the while loop of LeavePolicyAssistant.run, or a submit of the
\* form of StreamlitHRAssistant.chat_interface, that reads a query of qs and
\* shows the reply of handle_query, or the error it raised; rets is what the
\* index retriever may answer a policy question with
Turn(qs, gen, rets) ==
    /\ pc = "query"
    /\ queries < MaxQueries
    /\ \E query \in qs :
         /\ lower(strip(query)) \notin {TxtExit, TxtQuit}
         /\ \E branch \in {route(strip(query))} : \E s \in Services(branch, gen) :
              LET Run(f) == handle_query(strip(query), f, s.r1, s.r2, s.cause, sheet,
                                         history_exists, leave_history, user_data,
                                         authenticated_user, user)
              IN  \E out \in {Run(s.f)} :
                  \E failed \in {s.f # "none" /\ out # Run("none")} :
                  /\ sheet' = out.sheet
                  /\ history_exists' = out.history_exists
                  /\ leave_history' = out.leave_history
                  /\ user_data' = out.user_data
                  /\ authenticated_user' = out.authenticated_user
                  /\ user' = out.user
                  /\ last' = [query |-> query, branch |-> out.branch, raised |-> out.raised,
                              reply |-> out.reply, token |-> out.token, days |-> out.days,
                              apply_called |-> out.apply_called, apply_ok |-> out.apply_ok,
                              reached |-> out.reached, remaining |-> out.remaining,
                              calls |-> out.calls, response |-> out.response,
                              r1 |-> s.r1, r2 |-> s.r2,
                              fail |-> IF failed THEN s.f ELSE "none",
                              cause |-> IF failed THEN s.cause ELSE <<>>,
                              sheet_changed |-> (out.sheet # sheet),
                              history_changed |-> (out.leave_history # leave_history
                                                   \/ out.history_exists # history_exists),
                              before |-> IF last.reply.kind = Submitted
                                         THEN [submitted |-> TRUE,
                                               remaining |-> last.remaining,
                                               days |-> last.days]
                                         ELSE NoLast.before]
                  /\ IF branch = "policy" /\ s.f # "retriever"
                     THEN \E r \in rets :
                            LET got == custom_retriever(rag, r.scores, r.docs)
                            IN  retrieved' =
                                  [candidates |-> r.docs, scores |-> r.scores,
                                   top_k |-> IF got.reranked THEN RerankTopK ELSE 0,
                                   order |-> got.order, chunks |-> got.chunks,
                                   context |-> got.context, reranked |-> got.reranked,
                                   done |-> TRUE]
                     ELSE retrieved' = NoRetrieved
    /\ queries' = queries + 1
    /\ login' = NoLogin
    /\ UNCHANGED <<pc, attempts, entry, loader, rag, session_state, sessions>>

HandleQuery == Turn(Queries, GenInputsShort, {RetrievalSwapped})

\* the turn that reads exit or quit
Quit ==
    /\ entry = "cli"
    /\ pc = "query"
    /\ \E query \in {QExit, QQuit} : lower(strip(query)) \in {TxtExit, TxtQuit}
    /\ pc' = "exited"
    /\ UNCHANGED <<attempts, sheet, history_exists, leave_history, user_data,
                   authenticated_user, user, queries, last>>
    /\ UNCHANGED <<login, ragVars, session_state, sessions>>

Next == Login \/ HandleQuery \/ Quit

Spec == Init /\ [][Next]_vars

----------------------------------------------------------------------------
(* The answer generator on its own: a session that is logged in asks policy *)
(* questions, and the backend answers with every pair of texts.             *)

InitGen ==
    /\ pc = "query"
    /\ attempts = 0
    /\ \E b \in InitBalances :
         /\ sheet = <<Row(NameAlice, 1234, b), Row(NameBob, 42, Fin(3500))>>
         /\ user_data = sheet
         /\ authenticated_user = sheet[1]
         /\ user \in {sheet[1], None}
    /\ history_exists = FALSE
    /\ leave_history = <<>>
    /\ queries = 0
    /\ last = NoLast
    /\ login = NoLogin
    /\ entry = "cli"
    /\ loader = LoadedLoader
    /\ rag = CliRag
    /\ session_state = NoSession
    /\ retrieved = NoRetrieved
    /\ sessions = <<>>

AskPolicy == Turn({QPolicy, QFuel}, GenInputs, {RetrievalSwapped})

NextGen == AskPolicy

SpecGen == InitGen /\ [][NextGen]_vars

----------------------------------------------------------------------------
(* The reranker on its own: rerank_chunks applied to every short sequence   *)
(* of candidates, every scoring of them and every top_k up to the default.  *)

InitRerank ==
    /\ pc = "rerank"
    /\ attempts = 0
    /\ sheet = <<>>
    /\ history_exists = FALSE
    /\ leave_history = <<>>
    /\ user_data = NoData
    /\ authenticated_user = None
    /\ user = None
    /\ queries = 0
    /\ last = NoLast
    /\ login = NoLogin
    /\ entry = "none"
    /\ loader = LoadedLoader
    /\ rag = None
    /\ session_state = NoSession
    /\ sessions = <<>>
    /\ \E candidates \in CandidateLists, scores \in Scorings, top_k \in 0..DefaultTopK :
         retrieved = [NoRetrieved EXCEPT !.candidates = candidates, !.scores = scores,
                                         !.top_k = top_k]

Rerank ==
    /\ pc = "rerank"
    /\ ~retrieved.done
    /\ LET got == rerank_chunks(retrieved.scores, retrieved.candidates, retrieved.top_k)
       IN  retrieved' = [retrieved EXCEPT !.order = got.order, !.chunks = got.chunks,
                                          !.reranked = TRUE, !.done = TRUE]
    /\ UNCHANGED <<cliVars, login, entry, loader, rag, session_state, sessions>>

NextRerank == Rerank

SpecRerank == InitRerank /\ [][NextRerank]_vars

----------------------------------------------------------------------------
(* Startup and login of both entry points: main.py (entry "cli") and        *)
(* streamlit_app.py (entry "gui"). For the GUI, pc is the page that run()   *)
(* shows: "init" until initialize_system went through, "login" for          *)
(* login_page and "query" for main_dashboard.                               *)

StartFails == {"none", "pdf", "excel", "encode", "index", "llm"}
Corpora == {[pdf |-> PdfDocs, excel |-> ExcelDocs], [pdf |-> <<>>, excel |-> <<>>]}
Attached == [attached |-> TRUE]
Ready(rg) == [rg EXCEPT !.llm_ready = TRUE, !.chain = TRUE]

Pw42Padded == <<" ", "4", "2">>
GuiUsernames == {NameAlice, NameAliceUpper, NameBob, <<>>}
GuiPasswords == {Pw1234, Pw42Padded, PwText, <<>>}

InitStart ==
    /\ pc = "init"
    /\ attempts = 0
    /\ sheet = <<Row(NameAlice, 1234, Fin(1000)), Row(NameBob, 42, Fin(3500)),
                 Row(NameAliceUpper, 1234, Fin(700))>>
    /\ history_exists = FALSE
    /\ leave_history = <<>>
    /\ user_data = NoData
    /\ authenticated_user = None
    /\ user = None
    /\ queries = 0
    /\ last = NoLast
    /\ login = NoLogin
    /\ entry \in {"cli", "gui"}
    /\ loader = FreshLoader
    /\ rag = None
    /\ session_state = NoSession
    /\ retrieved = NoRetrieved
    /\ sessions = <<>>

\* initialization that goes on to the login after a failed ingestion
InitializeSystem_continues ==
    /\ entry = "cli"
    /\ pc = "init"
    /\ \E f \in StartFails, docs \in Corpora :
         LET ld == load_all_documents(f, loader, docs.pdf, docs.excel)
             built == PolicyRAGSystem(ld.retriever, None)
         IN  /\ loader' = ld
             /\ IF f = "llm"
                THEN rag' = built /\ pc' = "exited"
                ELSE rag' = Ready(built) /\ pc' = "login"
    /\ UNCHANGED <<attempts, sheet, history_exists, leave_history, user_data,
                   authenticated_user, user, queries, last>>
    /\ UNCHANGED <<login, entry, session_state, retrieved, sessions>>

\* LeavePolicyAssistant.initialize_system: sys.exit(1) when the ingestion or
\* the generator setup fails
InitializeSystem ==
    /\ entry = "cli"
    /\ pc = "init"
    /\ \E f \in StartFails, docs \in Corpora :
         LET ld == load_all_documents(f, loader, docs.pdf, docs.excel)
             built == PolicyRAGSystem(ld.retriever, None)
         IN  /\ loader' = ld
             /\ IF ld.raised
                THEN rag' = None /\ pc' = "exited"
                ELSE IF f = "llm"
                THEN rag' = built /\ pc' = "exited"
                ELSE rag' = Ready(built) /\ pc' = "login"
    /\ UNCHANGED <<attempts, sheet, history_exists, leave_history, user_data,
                   authenticated_user, user, queries, last>>
    /\ UNCHANGED <<login, entry, session_state, retrieved, sessions>>

\* StreamlitHRAssistant.initialize_system, called by login_page: a failure
\* leaves system_initialized False and the page without the login form; the
\* next run of the script tries again with a new loader
GuiInitializeSystem ==
    /\ entry = "gui"
    /\ pc = "init"
    /\ ~session_state.system_initialized
    /\ \E f \in StartFails, docs \in Corpora :
         LET ld == load_all_documents(f, FreshLoader, docs.pdf, docs.excel)
             built == PolicyRAGSystem(ld.retriever, Attached)
         IN  /\ loader' = ld
             /\ IF ld.raised \/ f = "llm"
                THEN /\ rag' = rag
                     /\ session_state' = session_state
                     /\ pc' = "init"
                ELSE /\ rag' = Ready(built)
                     /\ session_state' = [session_state EXCEPT !.system_initialized = TRUE]
                     /\ pc' = "login"
    /\ UNCHANGED <<attempts, sheet, history_exists, leave_history, user_data,
                   authenticated_user, user, queries, last>>
    /\ UNCHANGED <<login, entry, retrieved, sessions>>

\* the submit of the login form that counts a failed attempt but goes on
\* calling authenticate at the limit
GuiLogin_no_lockout ==
    /\ entry = "gui"
    /\ pc = "login"
    /\ session_state.system_initialized
    /\ ~session_state.authenticated
    /\ \E username \in GuiUsernames, password \in GuiPasswords, f \in LoginFails :
         LET a == authenticate(username, password, f, sheet, user_data, authenticated_user)
             g == get_authenticated_user(f = "refresh.load", sheet,
                                         a.user_data, a.authenticated_user)
         IN  IF username = <<>> \/ password = <<>>
             THEN /\ login' = [NoLogin EXCEPT !.username = username, !.password = password,
                                              !.ret = "skipped",
                                              !.before = authenticated_user,
                                              !.after = authenticated_user]
                  /\ UNCHANGED <<user, user_data, authenticated_user, session_state, pc>>
             ELSE /\ login' = [username |-> username, password |-> password,
                               fail |-> IF f = "auth.load" \/ a.ret = "True" THEN f ELSE "none",
                               ret |-> a.ret, before |-> authenticated_user,
                               after |-> a.authenticated_user]
                  /\ IF a.ret = "True"
                     THEN /\ user' = g.ret
                          /\ user_data' = g.user_data
                          /\ authenticated_user' = g.authenticated_user
                          /\ session_state' = [session_state EXCEPT !.user = g.ret,
                                                                    !.authenticated = TRUE,
                                                                    !.login_attempts = 0]
                          /\ pc' = "query"
                     ELSE /\ user' = user
                          /\ user_data' = a.user_data
                          /\ authenticated_user' = a.authenticated_user
                          /\ session_state' =
                               [session_state EXCEPT !.login_attempts =
                                    Min(@ + 1, MAX_LOGIN_ATTEMPTS)]
                          /\ pc' = "login"
    /\ UNCHANGED <<attempts, sheet, history_exists, leave_history, queries, last>>
    /\ UNCHANGED <<ragVars, sessions>>

\* the submit of the login form of StreamlitHRAssistant.login_page
GuiLogin ==
    /\ entry = "gui"
    /\ pc = "login"
    /\ session_state.system_initialized
    /\ ~session_state.authenticated
    /\ \E username \in GuiUsernames, password \in GuiPasswords, f \in LoginFails :
         LET a == authenticate(username, password, f, sheet, user_data, authenticated_user)
             g == get_authenticated_user(f = "refresh.load", sheet,
                                         a.user_data, a.authenticated_user)
         IN  IF \/ username = <<>>
                \/ password = <<>>
                \/ session_state.login_attempts >= MAX_LOGIN_ATTEMPTS
             THEN /\ login' = [NoLogin EXCEPT !.username = username, !.password = password,
                                              !.ret = "skipped",
                                              !.before = authenticated_user,
                                              !.after = authenticated_user]
                  /\ UNCHANGED <<user, user_data, authenticated_user, session_state, pc>>
             ELSE /\ login' = [username |-> username, password |-> password,
                               fail |-> IF f = "auth.load" \/ a.ret = "True" THEN f ELSE "none",
                               ret |-> a.ret, before |-> authenticated_user,
                               after |-> a.authenticated_user]
                  /\ IF a.ret = "True"
                     THEN /\ user' = g.ret
                          /\ user_data' = g.user_data
                          /\ authenticated_user' = g.authenticated_user
                          /\ session_state' = [session_state EXCEPT !.user = g.ret,
                                                                    !.authenticated = TRUE,
                                                                    !.login_attempts = 0]
                          /\ pc' = "query"
                     ELSE /\ user' = user
                          /\ user_data' = a.user_data
                          /\ authenticated_user' = a.authenticated_user
                          /\ session_state' =
                               [session_state EXCEPT !.login_attempts = @ + 1]
                          /\ pc' = "login"
    /\ UNCHANGED <<attempts, sheet, history_exists, leave_history, queries, last>>
    /\ UNCHANGED <<ragVars, sessions>>

\* StreamlitHRAssistant.logout: the session keys are dropped, the
\* authenticator and the generator are kept
GuiLogout ==
    /\ entry = "gui"
    /\ pc = "query"
    /\ session_state.authenticated
    /\ session_state' = [session_state EXCEPT !.authenticated = FALSE, !.user = None,
                                              !.login_attempts = 0]
    /\ user' = None
    /\ pc' = "login"
    /\ last' = NoLast                 \* chat_history goes with the session keys
    /\ retrieved' = NoRetrieved
    /\ UNCHANGED <<attempts, sheet, history_exists, leave_history, user_data,
                   authenticated_user, queries>>
    /\ UNCHANGED <<login, entry, loader, rag, sessions>>

AskStart == Turn({QPolicy, QFuel}, GenInputsShort, Retrievals)

NextStart ==
    \/ InitializeSystem
    \/ GuiInitializeSystem
    \/ Login
    \/ GuiLogin
    \/ GuiLogout
    \/ AskStart
    \/ Quit

SpecStart == InitStart /\ [][NextStart]_vars

----------------------------------------------------------------------------
(* Two logged-in sessions of the same user, each with its own               *)
(* Authenticator, that call apply_for_leave (leave_application_form, or the *)
(* "apply for leave" query). The store calls of one call are separate       *)
(* requests, so the calls of the two sessions interleave between them.      *)

MaxApplications == 2
Sessions == {1, 2}
\* day counts of the calls: float(days_str) of the "apply for leave" query,
\* which also parses "nan"
ConcDays == {Fin(200), Fin(300), Fin(500), NaN}

\* a session between two calls of apply_for_leave; calls counts the calls
\* it has started
IdleSession(calls) ==
    [at |-> "idle", days |-> NoFloat, row |-> 0, remaining_leaves |-> NoFloat,
     new_remaining |-> NoFloat, calls |-> calls]

InitConc ==
    /\ pc = "concurrent"
    /\ attempts = 0
    /\ \E b \in InitBalances :
         /\ sheet = <<Row(NameAlice, 1234, b), Row(NameBob, 42, Fin(3500))>>
         /\ sessions = [initial |-> b, granted |-> 0, raised |-> 0,
                        of |-> [i \in Sessions |-> IdleSession(0)]]
    /\ history_exists = FALSE
    /\ leave_history = <<>>
    /\ user_data = NoData
    /\ authenticated_user = None
    /\ user = None
    /\ queries = 0
    /\ last = NoLast
    /\ login = NoLogin
    /\ entry = "gui"
    /\ loader = LoadedLoader
    /\ rag = None
    /\ session_state = NoSession
    /\ retrieved = NoRetrieved

\* apply_for_leave up to the four checks: load_user_data, worksheet.find,
\* worksheet.cell, the checks, and new_remaining computed from what was read
ApplyRead ==
    /\ pc = "concurrent"
    /\ \E i \in Sessions, days \in ConcDays :
         LET s == sessions.of[i]
             row == find(sheet, lower(NameAlice))
             remaining_leaves == sheet[row].remaining_leaves
         IN  /\ s.at = "idle"
             /\ s.calls < MaxApplications
             /\ IF validate(days, remaining_leaves) # "ok"
                THEN sessions' = [sessions EXCEPT !.of[i] = IdleSession(s.calls + 1),
                                                  !.raised = @ + 1]
                ELSE sessions' = [sessions EXCEPT !.of[i] =
                                    [at |-> "checked", days |-> days, row |-> row,
                                     remaining_leaves |-> remaining_leaves,
                                     new_remaining |-> fSub(remaining_leaves, days),
                                     calls |-> s.calls + 1]]
    /\ UNCHANGED <<cliVars, login, ragVars, session_state>>

\* worksheet.update_cell(row, 4, new_remaining)
ApplyUpdateCell ==
    /\ pc = "concurrent"
    /\ \E i \in Sessions :
         LET s == sessions.of[i]
         IN  /\ s.at = "checked"
             /\ sheet' = [sheet EXCEPT ![s.row].remaining_leaves = s.new_remaining]
             /\ sessions' = [sessions EXCEPT !.of[i].at = "updated"]
    /\ UNCHANGED <<pc, attempts, history_exists, leave_history, user_data,
                   authenticated_user, user, queries, last>>
    /\ UNCHANGED <<login, ragVars, session_state>>

\* the LeaveHistory row and return True: the application is reported
\* successful
ApplyAppendRow ==
    /\ pc = "concurrent"
    /\ \E i \in Sessions :
         LET s == sessions.of[i]
         IN  /\ s.at = "updated"
             /\ history_exists' = TRUE
             /\ leave_history' = Append(leave_history,
                                        [username |-> NameAlice, days |-> s.days,
                                         status |-> "Pending Approval"])
             /\ sessions' = [sessions EXCEPT !.of[i] = IdleSession(s.calls),
                                             !.granted = @ + s.days.v]
    /\ UNCHANGED <<pc, attempts, sheet, user_data, authenticated_user, user, queries, last>>
    /\ UNCHANGED <<login, ragVars, session_state>>

\* a store call of a running apply_for_leave raises: load_user_data, find or
\* cell before the checks, update_cell after them, worksheets or append_row
\* after the balance is written. The except clause re-raises, the call ends
\* and nothing is undone.
ApplyStoreError ==
    /\ pc = "concurrent"
    /\ \E i \in Sessions :
         LET s == sessions.of[i]
             started == IF s.at = "idle" THEN s.calls + 1 ELSE s.calls
         IN  /\ s.at = "idle" => s.calls < MaxApplications
             /\ sessions' = [sessions EXCEPT !.of[i] = IdleSession(started),
                                             !.raised = @ + 1]
    /\ UNCHANGED <<cliVars, login, ragVars, session_state>>

NextConc == ApplyRead \/ ApplyUpdateCell \/ ApplyAppendRow \/ ApplyStoreError

SpecConc == InitConc /\ [][NextConc]_vars

----------------------------------------------------------------------------
(* Properties. `last` is the query handled last; a property about a query   *)
(* is stated of it, so it is stated of every query of every run.            *)

Handled == last.branch # "none"
LastText == strip(lower(last.query))
LastParts == split(LastText)

\* the reason a failed application reports
Reported(reason) ==
    /\ ~last.raised
    /\ last.reply.kind = ApplyFailed
    /\ last.reply.cause = <<"Failed to apply for leave: ", reason>>

\* the four conditions on a day count, as the specification words them
IsPositive(d) == ~fLe(d, Fin(0))
AtLeastMinimum(d) == ~fLt(d, Fin(MIN_LEAVE_DAYS))
AtMostMaximum(d) == ~fGt(d, Fin(MAX_LEAVE_DAYS))
WithinBalance(d, r) == ~fGt(d, r)
PassesValidation(d, r) ==
    IsPositive(d) /\ AtLeastMinimum(d) /\ AtMostMaximum(d) /\ WithinBalance(d, r)

\* b - d on floats
Difference(b, d) == IF b.cls = "fin" /\ d.cls = "fin" THEN Fin(b.v - d.v) ELSE NaN

\* the balance the row store holds for the user of the session
StoredBalance ==
    sheet[CHOOSE i \in 1..Len(sheet) :
            lower(sheet[i].username) = lower(authenticated_user.username)].remaining_leaves

\* C1. Router priority: a query whose lower-cased, trimmed text starts with
\* "apply for leave" takes the leave-application branch and never the balance
\* branch, also when it contains a balance phrase; "apply for leave 3 of my
\* remaining leaves" is an application for 3.0 days.
C1_RouterPriority ==
    /\ (Handled /\ startswith(LastText, ApplyPrefix)) =>
          /\ last.branch = "apply"
          /\ last.reply.kind # BalanceReply
    /\ (last.query = QApplyRemaining) =>
          /\ last.branch = "apply"
          /\ last.days = Fin(300)

C1_Witness ==
    /\ last.query = QApplyRemaining
    /\ contains(LastText, TermRemainingLeaves)
    /\ last.branch = "apply"
    /\ last.days = Fin(300)
    /\ last.reply.kind = Submitted

\* C2. Validation order: once apply_for_leave has read the balance, the checks
\* run as positive, minimum, maximum, balance, and the first one that fails
\* is the reason the reply reports; when none fails, none is reported.
C2_ValidationOrder ==
    (last.branch = "apply" /\ last.reached) =>
        LET d == last.days
            r == last.remaining
        IN  /\ ~IsPositive(d) => Reported(MustBePositive)
            /\ (IsPositive(d) /\ ~AtLeastMinimum(d)) => Reported(MinimumLeave)
            /\ (IsPositive(d) /\ AtLeastMinimum(d) /\ ~AtMostMaximum(d)) =>
                  Reported(MaximumLeave)
            /\ (IsPositive(d) /\ AtLeastMinimum(d) /\ AtMostMaximum(d) /\ ~WithinBalance(d, r)) =>
                  Reported(NotEnough)
            /\ PassesValidation(d, r) =>
                  \A reason \in {MustBePositive, MinimumLeave, MaximumLeave, NotEnough} :
                      ~Reported(reason)

\* 40 days asked with 5 left: over the maximum and over the balance, and the
\* maximum is what is reported
C2_Witness ==
    /\ last.branch = "apply"
    /\ last.reached
    /\ last.days = Fin(4000)
    /\ last.remaining = Fin(500)
    /\ Reported(MaximumLeave)

\* C3. Leave-day parsing, as claimed: when the 4th token of an "apply for
\* leave" query is absent or not numeric, the reply is the "Please specify"
\* message and apply_for_leave is not called.
C3_Claimed ==
    (last.branch = "apply" /\ (Len(LastParts) <= 3 \/ ~float(LastParts[4]).ok)) =>
        /\ ~last.raised
        /\ last.reply.kind = PleaseSpecify
        /\ ~last.apply_called

\* C4. Boundary of the balance check: with the day count within the minimum
\* and the maximum, a count equal to the balance read passes the check (and
\* the application succeeds when every store call answers), and a count
\* above the balance fails with "Not enough remaining leaves".
C4_BalanceBoundary ==
    (last.branch = "apply" /\ last.reached
        /\ fLe(Fin(MIN_LEAVE_DAYS), last.days) /\ fLe(last.days, Fin(MAX_LEAVE_DAYS))) =>
        /\ (last.days = last.remaining) =>
              /\ ~Reported(NotEnough)
              /\ (last.fail = "none") => (last.apply_ok /\ last.reply.kind = Submitted)
        /\ fGt(last.days, last.remaining) =>
              (~last.apply_ok /\ Reported(NotEnough) /\ ~last.sheet_changed)

\* 5 days asked with exactly 5 left
C4_Witness ==
    /\ last.branch = "apply"
    /\ last.days = Fin(500)
    /\ last.remaining = Fin(500)
    /\ last.apply_ok
    /\ last.reply.kind = Submitted
    /\ last.reply.remaining_leaves = Fin(0)

\* C5. A successful application: when "apply for leave d" passes validation
\* against the balance b and every store call answers, the store holds b - d
\* for the user, the reply reports success with b - d, and a balance query
\* that follows reports b - d.
C5_SuccessfulApplication ==
    /\ (last.branch = "apply" /\ last.reached /\ last.fail = "none"
            /\ PassesValidation(last.days, last.remaining)) =>
          /\ last.reply.kind = Submitted
          /\ last.reply.days = last.days
          /\ last.reply.remaining_leaves = Difference(last.remaining, last.days)
          /\ StoredBalance = Difference(last.remaining, last.days)
    /\ (last.branch = "balance" /\ last.before.submitted /\ last.fail = "none") =>
          /\ last.reply.kind = BalanceReply
          /\ last.reply.remaining_leaves = Difference(last.before.remaining, last.before.days)

\* alice with 10.0 applied for 2 and now reads 8.0
C5_Witness ==
    /\ last.branch = "balance"
    /\ last.before.submitted
    /\ last.before.remaining = Fin(1000)
    /\ last.before.days = Fin(200)
    /\ last.reply.kind = BalanceReply
    /\ last.reply.remaining_leaves = Fin(800)
    /\ StoredBalance = Fin(800)

\* C6. Validation before delegation: an application that fails one of the
\* four checks leaves the balance cell and LeaveHistory as they were, and a
\* query that wrote to either had read the balance and passed all four.
C6_ValidationBeforeWrite ==
    /\ (last.apply_called /\ last.reached /\ ~PassesValidation(last.days, last.remaining)) =>
          (~last.sheet_changed /\ ~last.history_changed)
    /\ (last.sheet_changed \/ last.history_changed) =>
          (last.apply_called /\ last.reached /\ PassesValidation(last.days, last.remaining))

\* 10 days asked with 5 left: refused, nothing written
C6_Witness ==
    /\ last.apply_called
    /\ last.reached
    /\ last.days = Fin(1000)
    /\ last.remaining = Fin(500)
    /\ Reported(NotEnough)
    /\ ~last.sheet_changed
    /\ ~last.history_changed

\* C7. Balance branch: a query that does not start with "apply for leave" and
\* contains a balance phrase refreshes the user record and, when the store
\* answers, replies with the balance the store holds now, without a call to
\* the retrieval and generation pipeline.
C7_BalanceBranch ==
    (Handled /\ ~startswith(LastText, ApplyPrefix)
        /\ (\E term \in BalanceTerms : contains(LastText, term))) =>
        /\ last.branch = "balance"
        /\ last.calls = 0
        /\ last.response = <<>>
        /\ (last.fail = "none") =>
              /\ ~last.raised
              /\ last.reply.kind = BalanceReply
              /\ last.reply.remaining_leaves = StoredBalance
              /\ user # None
              /\ user.remaining_leaves = StoredBalance

\* the balance read after an application changed it
C7_Witness ==
    /\ last.query = QHowMany
    /\ last.branch = "balance"
    /\ last.before.submitted
    /\ last.reply.kind = BalanceReply
    /\ last.reply.remaining_leaves = Fin(500)
    /\ StoredBalance = Fin(500)

\* C8. Failures caught at the query boundary, as claimed: whatever the query
\* and whichever call fails, handle_query returns a string and does not raise.
C8_Claimed == Handled => ~last.raised

\* C9. Generation failure: when a call of the text-generation backend fails,
\* the first or the summarization call, query_policy returns "Error
\* processing your query: " followed by the cause, and nothing is raised.
C9_GenerationFailure ==
    (last.branch = "policy") =>
        /\ ~last.raised
        /\ (last.fail \in {"generate1", "generate2"}) =>
              last.response = ErrorProcessing \o last.cause

\* the summarization call fails
C9_Witness ==
    /\ last.branch = "policy"
    /\ last.fail = "generate2"
    /\ last.calls = 2
    /\ last.cause = CauseLeave
    /\ last.response = ErrorProcessing \o CauseLeave

\* C10, as claimed: the second call is made exactly when the first response,
\* as the backend returned it, is longer than 600 characters or holds more
\* than four ". ".
C10_Claimed ==
    (last.branch = "policy" /\ last.fail \notin {"retriever", "generate1"}) =>
        (last.calls = 2 <=>
            (Len(last.r1) > MaxResponseLen \/ count(last.r1, DotSpace) > MaxSentenceBreaks))

\* C10, amended. Single bounded retry: at most two backend calls per policy
\* question; the second is made exactly when the first response, stripped of
\* leading and trailing whitespace, is longer than 600 characters or holds
\* more than four ". "; the stripped second response is returned as it is,
\* whatever its length, and the stripped first one when no second call is made.
C10_SingleBoundedRetry ==
    (last.branch = "policy") =>
        /\ last.calls <= 2
        /\ (last.fail \notin {"retriever", "generate1"}) =>
              LET first == strip(last.r1)
              IN  /\ last.calls >= 1
                  /\ last.calls = 2 <=>
                        (Len(first) > MaxResponseLen \/ count(first, DotSpace) > MaxSentenceBreaks)
                  /\ (last.calls = 1) => last.response = first
                  /\ (last.calls = 2 /\ last.fail # "generate2") =>
                        last.response = strip(last.r2)

\* a summary that is itself too long is returned, not summarized again
C10_Witness ==
    /\ last.branch = "policy"
    /\ last.r1 = RespFive
    /\ last.r2 = RespOverLimit
    /\ last.calls = 2
    /\ last.response = RespOverLimit

\* C11. The reranker: rerank_chunks returns at most top_k chunks, each one of
\* the candidates, in descending order of score, candidates of equal score in
\* the order they had among the candidates; of no candidates it returns none.
C11_Rerank ==
    (pc = "rerank" /\ retrieved.done) =>
        LET c == retrieved.candidates
            o == retrieved.order
            r == retrieved.chunks
            score(i) == retrieved.scores[c[i]]
        IN  /\ Len(r) <= retrieved.top_k
            /\ Len(o) = Len(r)
            /\ \A i \in 1..Len(r) : o[i] \in 1..Len(c) /\ r[i] = c[o[i]]
            /\ \A i, j \in 1..Len(o) :
                  i < j => \/ score(o[i]) > score(o[j])
                           \/ score(o[i]) = score(o[j]) /\ o[i] < o[j]
            /\ (c = <<>>) => (r = <<>>)

\* c1 and c3 score the same below c2, and two chunks are asked for
C11_Witness ==
    /\ pc = "rerank"
    /\ retrieved.done
    /\ retrieved.candidates = <<"c1", "c2", "c3">>
    /\ retrieved.scores["c1"] = 50
    /\ retrieved.scores["c2"] = 90
    /\ retrieved.scores["c3"] = 50
    /\ retrieved.top_k = 2
    /\ retrieved.chunks = <<"c2", "c1">>

\* C12. Pipeline order, as claimed: whichever entry point was started, the
\* context of a policy question is the reranker's top five of the candidates
\* the retriever answered.
C12_Claimed ==
    (pc # "rerank" /\ retrieved.done) =>
        /\ retrieved.reranked
        /\ retrieved.context =
              join(rerank_chunks(retrieved.scores, retrieved.candidates, RerankTopK).chunks)

\* C13. Ingestion failures are fatal to startup: after load_all_documents
\* failed, the command-line run has exited and the GUI run shows no login
\* form, and no login attempt and no query was handled; a login attempt or a
\* query is handled only with a loader whose ingestion went through.
C13_IngestionFatal ==
    /\ loader.raised =>
          /\ pc = (IF entry = "cli" THEN "exited" ELSE "init")
          /\ ~session_state.system_initialized
          /\ ~session_state.authenticated
          /\ login = NoLogin
          /\ ~Handled
          /\ queries = 0
    /\ (pc \in {"login", "query"} \/ login # NoLogin \/ Handled \/ queries > 0) =>
          /\ ~loader.raised
          /\ loader.all_chunks # <<>>
          /\ loader.chunk_embeddings = [of |-> loader.all_chunks]
          /\ loader.vectorstore = [of |-> loader.all_chunks]
          /\ loader.retriever = [of |-> loader.all_chunks]

\* the spreadsheet download failed and the command-line run has exited
C13_Witness ==
    /\ entry = "cli"
    /\ loader.raised
    /\ loader.step = "excel"
    /\ pc = "exited"
    /\ login = NoLogin

\* C14. All-or-nothing ingestion, as claimed: after a call of
\* load_all_documents that failed, all_chunks, chunk_embeddings, vectorstore
\* and retriever hold what they held before the call.
C14_Claimed ==
    loader.raised =>
        /\ loader.all_chunks = FreshLoader.all_chunks
        /\ loader.chunk_embeddings = FreshLoader.chunk_embeddings
        /\ loader.vectorstore = FreshLoader.vectorstore
        /\ loader.retriever = FreshLoader.retriever

\* C15. Case-insensitive lookup, as claimed: the user who authenticated has
\* the row located by apply_for_leave too, whenever the store answers.
C15_Claimed ==
    (last.branch = "apply" /\ last.apply_called /\ last.fail = "none") =>
        /\ last.reached
        /\ last.reply.cause # <<"Failed to apply for leave: ", NoneRow>>

\* the rows of the store that match the credentials of the last login
LoginMatches ==
    LET pw == int(login.password)
    IN  {i \in 1..Len(sheet) :
            /\ lower(sheet[i].username) = lower(login.username)
            /\ pw.ok
            /\ sheet[i].password = pw.val}

\* C16. authenticate: with the store reachable it returns True exactly when
\* a reloaded record has the username, ignoring case, and the password
\* int(password), and False without raising for a password that is not a
\* number; authenticated_user becomes the first matching record when it
\* returns True and stays what it was when it returns False.
C16_Authenticate ==
    (login.ret \notin {"none", "skipped"}) =>
        /\ (login.fail # "auth.load") =>
              /\ login.ret \in {"True", "False"}
              /\ login.ret = "True" <=> LoginMatches # {}
              /\ ~int(login.password).ok => login.ret = "False"
        /\ (login.fail = "auth.load") => login.ret # "True"
        /\ (login.ret = "True") =>
              login.after = sheet[CHOOSE i \in LoginMatches : \A j \in LoginMatches : i <= j]
        /\ (login.ret = "False") => login.after = login.before

\* ALICE logs in: two records match, the first is taken
C16_Witness ==
    /\ login.ret = "True"
    /\ login.username = NameAliceUpper
    /\ login.password = Pw1234
    /\ Cardinality(LoginMatches) = 2
    /\ login.after = sheet[1]
    /\ login.after.username = NameAlice

\* C17. The command-line login loop: every attempt that returns False or
\* raises is counted, the run exits at the third one, no attempt is made
\* after it, and the query loop is entered only by an attempt for which
\* authenticate returned True, with the handler's user set from it.
C17_LoginLoop ==
    /\ [](entry = "cli" =>
            /\ attempts \in 0..MAX_LOGIN_ATTEMPTS
            /\ (pc = "login") => attempts < MAX_LOGIN_ATTEMPTS
            /\ (attempts = MAX_LOGIN_ATTEMPTS) => pc = "exited")
    /\ [][(entry = "cli" /\ pc = "login") =>
            /\ login'.ret \in {"True", "False", "raise"}
            /\ (login'.ret \in {"False", "raise"}) =>
                  /\ attempts' = attempts + 1
                  /\ pc' = (IF attempts' = MAX_LOGIN_ATTEMPTS THEN "exited" ELSE "login")
            /\ (pc' = "query") <=> (login'.ret = "True")
            /\ (pc' = "query") =>
                  /\ authenticated_user' # None
                  /\ user' \in {None, authenticated_user'}]_vars
    /\ [][(entry = "cli" /\ pc # "login") => pc' # "query" \/ pc = "query"]_vars

\* the third unsuccessful attempt was one that raised
C17_Witness ==
    /\ entry = "cli"
    /\ pc = "exited"
    /\ attempts = MAX_LOGIN_ATTEMPTS
    /\ login.ret = "raise"

\* C18. The GUI login lockout: login_attempts stays within 0 and
\* MAX_LOGIN_ATTEMPTS; at MAX_LOGIN_ATTEMPTS a submit does not call
\* authenticate and does not log in; every call of authenticate that returns
\* False or raises adds one; the counter goes back to 0 only by a successful
\* login or by logout.
C18_GuiLockout ==
    /\ [](entry = "gui" => session_state.login_attempts \in 0..MAX_LOGIN_ATTEMPTS)
    /\ [][(entry = "gui" /\ pc = "login") =>
            /\ (session_state.login_attempts = MAX_LOGIN_ATTEMPTS) =>
                  /\ login'.ret = "skipped"
                  /\ ~session_state'.authenticated
                  /\ session_state' = session_state
            /\ (login'.ret \in {"False", "raise"}) =>
                  session_state'.login_attempts = session_state.login_attempts + 1
            /\ (login'.ret = "True") =>
                  /\ session_state'.authenticated
                  /\ session_state'.login_attempts = 0
            /\ (login'.ret = "skipped") => session_state' = session_state]_vars
    /\ [][(entry = "gui" /\ session_state'.login_attempts < session_state.login_attempts) =>
            /\ session_state'.login_attempts = 0
            /\ \/ pc = "login" /\ login'.ret = "True"
               \/ pc = "query" /\ pc' = "login"]_vars

\* at the limit the right credentials are not even tried
C18_Witness ==
    /\ entry = "gui"
    /\ session_state.login_attempts = MAX_LOGIN_ATTEMPTS
    /\ ~session_state.authenticated
    /\ login.ret = "skipped"
    /\ login.username = NameAlice
    /\ login.password = Pw1234

\* C19. Atomic leave application, as claimed: when apply_for_leave raised or
\* the reply to an "apply for leave" query is a failure message, the balance
\* cell and LeaveHistory are as before the query; the balance changes only in
\* queries that report success.
C19_Claimed ==
    (last.branch = "apply") =>
        /\ ((last.apply_called /\ ~last.apply_ok)
                \/ last.reply.kind \in {ApplyFailed, ValueErrorReply}) =>
              (~last.sheet_changed /\ ~last.history_changed)
        /\ last.sheet_changed => last.reply.kind = Submitted

\* C20. No over-allocation, as claimed: the days of the applications reported
\* successful never add up to more than the initial balance, and once no
\* call is under way the stored balance is the initial one less that sum.
C20_Claimed ==
    (pc = "concurrent") =>
        /\ sessions.granted <= sessions.initial.v
        /\ (\A i \in Sessions : sessions.of[i].at = "idle") =>
              sheet[1].remaining_leaves = Fin(sessions.initial.v - sessions.granted)

\* C21. Balance invariant, as claimed: whatever day counts the sessions send,
\* whichever store calls fail and however the calls interleave, the stored
\* remaining_leaves of the user is a number that is at least zero and at
\* most the balance the user started with.
C21_Claimed ==
    (pc = "concurrent") =>
        /\ fLe(Fin(0), sheet[1].remaining_leaves)
        /\ fLe(sheet[1].remaining_leaves, sessions.initial)

====
